---- MODULE Spec2Model ----
(***************************************************************************)
(* A model of the interception flow engine of pyproxy:                     *)
(*   - the structural matcher SoapMatches (proxy/pipe/recipe/soap.py),     *)
(*   - the flow tree, its builders, the parameter broadcast and the        *)
(*     per-owner lazy clone Flow.__get__ (proxy/pipe/recipe/transform.py), *)
(*   - the evaluation of a request by a flow tree as a resumable           *)
(*     computation (generators, yield / send, DoesNotAccept).              *)
(* The specifications share the variables: SpecMatch (the matcher),       *)
(* SpecBuild, SpecBind, SpecRace (builders, parameters, clones) and Spec *)
(* (evaluation). Each leaves the variables of the other parts untouched.   *)
(***************************************************************************)
EXTENDS Integers, Sequences, FiniteSets, TLC

VARIABLES
    \* ---- structural matcher (soap.py)
    pattern,      \* the pattern handed to SoapMatches.object_matches
    item,         \* the actual value
    strict,       \* the mode
    matched,      \* "unset", or the outcome of object_matches: "T", "F", "E"
    \* ---- flow objects (transform.py)
    heap,         \* the Flow objects, by identity (index)
    funcs,        \* the _responder closures, by identity (index)
    idict,        \* instance.__dict__.get("__flow") of every owner (0: absent)
    threads,      \* the activations of Flow.__get__ of every thread
    accesses,     \* the completed attribute accesses (Flow.__get__), in order
    last,         \* the transition just taken: operation, receiver, result
    \* ---- evaluation of one request (transform.py)
    tree,         \* the flow tree being evaluated
    bound,        \* whether the tree is a clone (its closures bound methods)
    request,      \* the request handed to the root
    stack,        \* the chain of active generators, innermost last
    status,       \* "run", "susp", "done", "rejected", "fault"
    result,       \* the value returned to the driver
    log           \* the observable events of the evaluation, in order

matchVars == <<pattern, item, strict, matched>>
heapVars  == <<heap, funcs, idict, threads, accesses, last>>
evalVars  == <<tree, bound, request, stack, status, result, log>>
vars      == <<pattern, item, strict, matched, heap, funcs, idict, threads, accesses, last,
               tree, bound, request, stack, status, result, log>>

\* Sequences over S of length at most n.
SeqUpTo(S, n) == UNION {[1..k -> S] : k \in 0..n}

(***************************************************************************)
(* PART 1. The structural matcher.                                         *)
(*                                                                         *)
(* Python values are records [t, n, items, fields]:                        *)
(*   t = "none"   None                                                     *)
(*   t = "int"    the scalar n                                             *)
(*   t = "list"   the list items                                           *)
(*   t = "dict"   the mapping from fields (the keys, in insertion order)   *)
(*                to items (the values, position by position)             *)
(*   t = "pred"   a callable pattern: predicate number n                   *)
(* An outcome is "T" (True), "F" (False) or "E" (an exception leaves       *)
(* object_matches: TypeError, KeyError).                                   *)
(***************************************************************************)
MaxLen == 3        \* longest list
MaxInt == 2        \* scalars are 1..MaxInt

PyNone      == [t |-> "none", n |-> 0, items |-> <<>>, fields |-> <<>>]
PyInt(k)    == [t |-> "int",  n |-> k, items |-> <<>>, fields |-> <<>>]
PyList(s)   == [t |-> "list", n |-> 0, items |-> s,    fields |-> <<>>]
PyDict(k, s) == [t |-> "dict", n |-> 0, items |-> s,   fields |-> k]
PyPred(k)   == [t |-> "pred", n |-> k, items |-> <<>>, fields |-> <<>>]

\* The callable patterns of the model: 1 accepts every value, 2 accepts the
\* scalars greater than 1. Both are total.
PredHolds(k, x) == IF k = 1 THEN TRUE ELSE x.t = "int" /\ x.n > 1

\* pattern == item for a scalar pattern (soap.py line 82).
PyEq(p, x) == p.t = x.t /\ p.n = x.n /\ p.items = x.items /\ p.fields = x.fields

\* len(x): defined for lists and dicts, a TypeError for None and scalars.
HasLen(x) == x.t \in {"list", "dict"}
PyLen(x)  == Len(x.items)

\* x[i] for a 0-based integer index that is < len(x): the element of a list,
\* a KeyError on a dict (its keys are field names).
CanIndex(x) == x.t = "list"

\* x[key] for a field name: the value on a dict that has the key, a KeyError on
\* a dict that has not, a TypeError on a list.
HasKey(x, key) == x.t = "dict" /\ \E j \in 1..Len(x.fields) : x.fields[j] = key
GetKey(x, key) == x.items[CHOOSE j \in 1..Len(x.fields) : x.fields[j] = key]

RECURSIVE object_matches(_, _, _)
RECURSIVE list_scan(_, _, _, _, _)
RECURSIVE dict_scan(_, _, _, _)

\* soap.py 92-102: the loop over the pattern (pi, 1-based) with the cursor
\* item_index (ii, 0-based) into the actual. The cursor is not advanced after a
\* break, so the next pattern element is tried on the same actual element first.
list_scan(p, x, s, pi, ii) ==
    IF pi > Len(p) THEN "T"
    ELSE IF ii >= PyLen(x) THEN "F"
    ELSE IF ~CanIndex(x) THEN "E"
    ELSE LET r == object_matches(p[pi], x.items[ii + 1], s)
         IN  IF r = "E" THEN "E"
             ELSE IF r = "T" THEN list_scan(p, x, s, pi + 1, ii)
             ELSE list_scan(p, x, s, pi, ii + 1)

\* soap.py 84-102. p is the sequence of sub-patterns (a list, or the 1-tuple
\* built at line 72).
list_matches(p, x0, s) ==
    LET x == IF x0.t = "none" /\ ~s THEN PyList(<<>>) ELSE x0
    IN  IF ~HasLen(x) THEN "E"
        ELSE IF Len(p) > PyLen(x) \/ (s /\ Len(p) # PyLen(x)) THEN "F"
        ELSE list_scan(p, x, s, 1, 0)

\* soap.py 109-113: the loop over pattern.items(), k the position of the key.
dict_scan(p, x, s, k) ==
    IF k > Len(p.fields) THEN "T"
    ELSE IF ~HasKey(x, p.fields[k]) THEN "E"
    ELSE LET r == object_matches(p.items[k], GetKey(x, p.fields[k]), s)
         IN  IF r = "E" THEN "E"
             ELSE IF r = "F" THEN "F"
             ELSE dict_scan(p, x, s, k + 1)

\* (mutant) line 106 without its strict clause: the sizes are never compared
\* for equality.
DictMatchesAnySize(p, x, s) ==
    IF ~HasLen(x) THEN "E"
    ELSE IF Len(p.fields) > PyLen(x) THEN "F"
    ELSE dict_scan(p, x, s, 1)

\* soap.py 104-113.
dict_matches(p, x, s) ==
    IF ~HasLen(x) THEN "E"
    ELSE IF Len(p.fields) > PyLen(x) \/ (s /\ Len(p.fields) # PyLen(x)) THEN "F"
    ELSE dict_scan(p, x, s, 1)

\* soap.py 67-82.
object_matches(p, x, s) ==
    IF p.t = "list" THEN list_matches(p.items, x, s)
    ELSE IF x.t = "list" /\ ~s THEN list_matches(<<p>>, x, s)
    ELSE IF p.t = "dict" THEN dict_matches(p, x, s)
    ELSE IF p.t = "pred" THEN (IF PredHolds(p.n, x) THEN "T" ELSE "F")
    ELSE IF PyEq(p, x) THEN "T" ELSE "F"

\* The values of the model: None, the scalars, the lists of those up to MaxLen,
\* the mappings over the field names a, b (in both insertion orders), and
\* lists / mappings holding one list or mapping.
Atoms  == {PyNone} \cup {PyInt(k) : k \in 1..MaxInt}
Keys   == {<<>>, <<"a">>, <<"b">>, <<"a", "b">>, <<"b", "a">>}
ListsOf(S) == {PyList(q) : q \in SeqUpTo(S, MaxLen)}
DictsOf(S) == UNION {{PyDict(k, q) : q \in [1..Len(k) -> S]} : k \in Keys}
Flat(S)    == ListsOf(S) \cup DictsOf(S)
Small(S)   == {PyList(<<>>), PyList(<<PyInt(1)>>), PyList(<<PyInt(1), PyInt(2)>>),
               PyDict(<<"a">>, <<PyInt(1)>>), PyDict(<<"b">>, <<PyInt(1)>>)} \cup S
Nested(S)  == {PyList(<<y>>) : y \in Small(S)} \cup
              {PyDict(<<"a">>, <<y>>) : y \in Small(S)}
Items    == Atoms \cup Flat(Atoms) \cup Nested({})
PAtoms   == Atoms \cup {PyPred(1), PyPred(2)}
Patterns == PAtoms \cup Flat(PAtoms) \cup Nested({})

MatchIdle == heap = <<>> /\ funcs = <<>> /\ idict = <<>> /\ threads = <<>> /\ accesses = <<>> /\ last = <<>> /\
             tree = <<>> /\ bound = FALSE /\ request = 0 /\ stack = <<>> /\ status = "off" /\
             result = 0 /\ log = <<>>

InitMatch ==
    /\ pattern \in Patterns
    /\ item \in Items
    /\ strict \in BOOLEAN
    /\ matched = "unset"
    /\ MatchIdle

\* SoapMatches._matches (soap.py 64-65): one call of the matcher.
Matches ==
    /\ matched = "unset"
    /\ matched' = object_matches(pattern, item, strict)
    /\ UNCHANGED <<pattern, item, strict, heapVars, evalVars>>

NextMatch == Matches
SpecMatch == InitMatch /\ [][NextMatch]_vars

\* C10: the matcher never faults: for every pattern, every actual value and
\* both modes object_matches ends with True or False, never with an exception.
C10_MatcherNeverFaults == matched \in {"unset", "T", "F"}

\* A list whose elements are all scalars (None or a number).
ScalarList(v) == v.t = "list" /\ \A k \in 1..Len(v.items) : v.items[k].t \in {"none", "int"}

\* p is an ordered subsequence of x: strictly increasing positions of x, one
\* per element of p, hold the elements of p in order.
IsOrderedSubsequence(p, x) ==
    \E f \in [1..Len(p) -> 1..Len(x)] :
        /\ \A i \in 1..Len(p) : \A j \in 1..Len(p) : i < j => f[i] < f[j]
        /\ \A i \in 1..Len(p) : x[f[i]] = p[i]

\* C11: in loose mode a list pattern of scalars matches a list of scalars
\* exactly when the pattern is an ordered subsequence of the actual list,
\* patterns with repeated values included.
C11_LooseListIsOrderedSubsequence ==
    (matched # "unset" /\ ~strict /\ ScalarList(pattern) /\ ScalarList(item))
        => (matched = "T" <=> IsOrderedSubsequence(pattern.items, item.items))

\* Every field named in the pattern exists in the actual mapping and its value
\* matches the value of the pattern.
FieldsMatch(p, x, s) ==
    \A k \in 1..Len(p.fields) :
        /\ HasKey(x, p.fields[k])
        /\ object_matches(p.items[k], GetKey(x, p.fields[k]), s) = "T"

\* C12: a mapping pattern matches an actual mapping exactly when every field
\* named in the pattern exists in the actual and its value matches, extra
\* fields of the actual being allowed in loose mode; in strict mode the actual
\* must besides have as many fields as the pattern.
C12_MappingMatchesByFields ==
    (matched # "unset" /\ pattern.t = "dict" /\ item.t = "dict")
        => (matched = "T" <=> /\ FieldsMatch(pattern, item, strict)
                              /\ strict => Len(pattern.fields) = Len(item.fields))

C12_Witness ==
    /\ pattern = PyDict(<<"a">>, <<PyInt(1)>>)
    /\ item = PyDict(<<"a", "b">>, <<PyInt(1), PyInt(2)>>)
    /\ ~strict
    /\ matched = "T"

\* C13: with the actual value None and a list pattern: in loose mode None is
\* the empty list, so the empty pattern matches and a non-empty one does not
\* match; in strict mode a non-empty pattern does not match (the result is
\* False).
C13_NoneIsTheEmptyList ==
    (matched # "unset" /\ pattern.t = "list" /\ item = PyNone)
        => IF ~strict
           THEN matched = (IF pattern.items = <<>> THEN "T" ELSE "F")
           ELSE pattern.items # <<>> => matched = "F"

\* C20: in strict mode a list pattern of scalars matches a list of scalars
\* only if the two lists are equal: same length, equal element by element.
C20_StrictListIsExact ==
    (matched = "T" /\ strict /\ ScalarList(pattern) /\ ScalarList(item))
        => pattern.items = item.items

(***************************************************************************)
(* PART 2. Flow objects: builders, parameters, the per-owner clone.        *)
(*                                                                         *)
(* heap[n] is the Flow object of identity n:                               *)
(*   cls         "Flow", "GuardedFlow" or "TransformingFlow"               *)
(*   arg         the guard / the transform object ("" for a plain Flow)    *)
(*   branches    _Flow__branches: references, in registration order        *)
(*   parameters  _Flow__parameters (0: None)                               *)
(*   origin, inst   history: the flow copy.copy() copied this one from     *)
(*               and the instance it was copied for (0: built by a builder)*)
(* A reference is [t |-> "flow", id, bound |-> 0] for a Flow object and     *)
(* [t |-> "fn", id, bound] for a _responder closure: bound = 0 is the plain *)
(* function, bound = o the method object function.__get__(o, owner).       *)
(***************************************************************************)
MaxFlows    == 3      \* Flow objects made by Flow() and the builders
MaxHeap     == 6      \* Flow objects in all, the clones included
MaxFuncs    == 1      \* _responder closures
MaxAccesses == 2      \* attribute accesses

Owners   == {1, 2}              \* the instances
Threads  == {1, 2}
Params   == {1}                 \* parameter sets; 0 is None
Guards   == {"g1"}              \* matcher objects handed to when()
Transforms == {"t1"}            \* Transform objects handed to transform()

FlowRef(n)   == [t |-> "flow", id |-> n, bound |-> 0]
FnRef(f, o)  == [t |-> "fn", id |-> f, bound |-> o]
NewFlow(c, a, p) == [cls |-> c, arg |-> a, branches |-> <<>>, parameters |-> p,
                     origin |-> 0, inst |-> 0]
Op(o, s, a, r) == [op |-> o, self |-> s, arg |-> a, ret |-> r]

FlowIds == 1..Len(heap)
Children(h, n) == {h[n].branches[k].id : k \in {j \in 1..Len(h[n].branches) :
                                                 h[n].branches[j].t = "flow"}}
HasParent(h, n) == \E m \in 1..Len(h) : n \in Children(h, m)
IsRoot(h, n)    == ~HasParent(h, n)

RECURSIVE ReachFrom(_, _, _)
\* The flows reachable from the set S through branch lists (k bounds the depth).
ReachFrom(h, S, k) ==
    IF k = 0 THEN S
    ELSE ReachFrom(h, S \cup UNION {Children(h, n) : n \in S}, k - 1)
Reach(h, n) == ReachFrom(h, {n}, Len(h))

RECURSIVE SetParametersIn(_, _, _)
RECURSIVE SetBranchParameters(_, _, _, _)
\* transform.py 45-47: the loop of the setter over the branches; only Flow
\* objects have the attribute "parameters" (functions and methods have not).
SetBranchParameters(h, n, k, p) ==
    IF k > Len(h[n].branches) THEN h
    ELSE LET b == h[n].branches[k]
         IN  IF b.t = "flow"
             THEN SetBranchParameters(SetParametersIn(h, b.id, p), n, k + 1, p)
             ELSE SetBranchParameters(h, n, k + 1, p)

\* (mutant) the setter without its loop over the branches.
SetParametersNoBroadcast(h, n, p) == [h EXCEPT ![n].parameters = p]

\* transform.py 42-47: Flow.parameters (setter).
SetParametersIn(h, n, p) ==
    SetBranchParameters([h EXCEPT ![n].parameters = p], n, 1, p)

\* transform.py 112-115: Flow.then_delegate, the heap it leaves.
ThenDelegateIn(h, n, f) ==
    LET h1 == [h EXCEPT ![n].branches = Append(@, FlowRef(f))]
    IN  SetParametersIn(h1, f, h1[n].parameters)

\* The bound on the objects the model allocates.
Built == {n \in FlowIds : heap[n].origin = 0}
Room  == Len(heap) < MaxHeap /\ Cardinality(Built) < MaxFlows

Quiet == \A t \in Threads : threads[t].stack = <<>>
Building == accesses = <<>>

\* transform.py 34-36: Flow(): a new root, parameters None.
NewRoot ==
    /\ Quiet
    /\ Room
    /\ heap' = Append(heap, NewFlow("Flow", "", 0))
    /\ last' = Op("Flow", 0, "", FlowRef(Len(heap) + 1))
    /\ UNCHANGED <<funcs, idict, threads, accesses, matchVars, evalVars>>

\* transform.py 68-73: Flow.when(matcher).
When(n, m) ==
    /\ Quiet
    /\ Room
    /\ LET f == Len(heap) + 1
           h == Append(heap, NewFlow("GuardedFlow", m, heap[n].parameters))
       IN  /\ heap' = ThenDelegateIn(h, n, f)
           /\ last' = Op("when", n, m, FlowRef(f))
    /\ UNCHANGED <<funcs, idict, threads, accesses, matchVars, evalVars>>

\* transform.py 75-77: Flow.transform(transform).
TransformOp(n, tr) ==
    /\ Quiet
    /\ Room
    /\ LET f == Len(heap) + 1
           h == Append(heap, NewFlow("TransformingFlow", tr, heap[n].parameters))
       IN  /\ heap' = ThenDelegateIn(h, n, f)
           /\ last' = Op("transform", n, tr, FlowRef(f))
    /\ UNCHANGED <<funcs, idict, threads, accesses, matchVars, evalVars>>

\* transform.py 89-101: Flow.then_respond(responder): a new closure is
\* appended and the receiver is returned.
ThenRespond(n) ==
    /\ Quiet
    /\ Len(funcs) < MaxFuncs
    /\ funcs' = Append(funcs, "respond")
    /\ heap' = [heap EXCEPT ![n].branches = Append(@, FnRef(Len(funcs) + 1, 0))]
    /\ last' = Op("then_respond", n, "", FlowRef(n))
    /\ UNCHANGED <<idict, threads, accesses, matchVars, evalVars>>

\* transform.py 103-110: Flow.then_pass_through(endpoint).
ThenPassThrough(n) ==
    /\ Quiet
    /\ Len(funcs) < MaxFuncs
    /\ funcs' = Append(funcs, "pass")
    /\ heap' = [heap EXCEPT ![n].branches = Append(@, FnRef(Len(funcs) + 1, 0))]
    /\ last' = Op("then_pass_through", n, "", FlowRef(n))
    /\ UNCHANGED <<idict, threads, accesses, matchVars, evalVars>>

\* transform.py 112-115: Flow.then_delegate(flow) with a pre-built sub-tree:
\* a flow that is no branch of any flow yet and does not contain the receiver
\* (the result stays a tree).
ThenDelegate(n, f) ==
    /\ Quiet
    /\ IsRoot(heap, f)
    /\ n \notin Reach(heap, f)
    /\ heap' = ThenDelegateIn(heap, n, f)
    /\ last' = Op("then_delegate", n, "", FlowRef(f))
    /\ UNCHANGED <<funcs, idict, threads, accesses, matchVars, evalVars>>

\* transform.py 42-47: root.parameters = p.
SetParameters(n, p) ==
    /\ Quiet
    /\ IsRoot(heap, n)
    /\ heap' = SetParametersIn(heap, n, p)
    /\ last' = Op("parameters", n, "", FlowRef(n))
    /\ UNCHANGED <<funcs, idict, threads, accesses, matchVars, evalVars>>

(***************************************************************************)
(* Flow.__get__(instance, owner), transform.py 49-66, step by step. A      *)
(* thread reading the attribute instance.<name> runs D.__get__(instance);  *)
(* threads[t] holds its owner o, the definition d, and the stack of        *)
(* activations (the recursion of line 61), each a frame                    *)
(*   self  the flow __get__ was called on                                  *)
(*   new   new_flow (0 before line 57)                                     *)
(*   i     the position of the loop of line 59                             *)
(*   pc    "lookup" (53), "copy" (57), "loop" (59), "store" (65)           *)
(* The cache is the one entry "__flow" of instance.__dict__: idict[o].     *)
(***************************************************************************)
Frame(n) == [self |-> n, new |-> 0, i |-> 1, pc |-> "lookup"]
IdleThread == [o |-> 0, d |-> 0, stack |-> <<>>, first |-> FALSE, quota |-> 0]
Top(t) == threads[t].stack[Len(threads[t].stack)]
Active(t) == threads[t].stack # <<>>
SetTop(t, f) == [threads EXCEPT ![t].stack[Len(threads[t].stack)] = f]

RECURSIVE SumQuota(_)
SumQuota(T) == IF T = {} THEN 0
               ELSE LET t == CHOOSE x \in T : TRUE
                    IN  threads[t].quota + SumQuota(T \ {t})

\* return v (lines 55 and 66): to the caller's line 61, which appends v to its
\* new_flow, or out of the outermost __get__, which ends the attribute access.
Return(t, h, v) ==
    LET st == threads[t].stack
        k  == Len(st)
    IN  IF k = 1
        THEN /\ threads' = [threads EXCEPT ![t].stack = <<>>, ![t].quota = 0]
             /\ heap' = h
             /\ accesses' = Append(accesses, [o |-> threads[t].o, d |-> threads[t].d,
                                              ret |-> v, first |-> threads[t].first])
             /\ last' = Op("get", threads[t].d, "", FlowRef(v))
        ELSE /\ threads' = [threads EXCEPT ![t].stack =
                               [j \in 1..(k - 1) |->
                                   IF j = k - 1 THEN [st[j] EXCEPT !.i = @ + 1] ELSE st[j]]]
             /\ heap' = [h EXCEPT ![st[k - 1].new].branches = Append(@, FlowRef(v))]
             /\ accesses' = accesses
             /\ last' = Op("step", st[k].self, "", FlowRef(v))

\* The attribute access starts: D.__get__(instance, owner) is called. D is a
\* flow built by the builders that is no branch of another flow.
GetCall(t, d, o) ==
    /\ ~Active(t)
    /\ heap[d].origin = 0 /\ IsRoot(heap, d)
    /\ Len(accesses) + Cardinality({u \in Threads : Active(u)}) < MaxAccesses
    /\ Len(heap) + SumQuota(Threads) + Cardinality(Reach(heap, d)) <= MaxHeap
    /\ threads' = [threads EXCEPT ![t] = [o |-> o, d |-> d, stack |-> <<Frame(d)>>,
                                          first |-> (idict[o] = 0),
                                          quota |-> Cardinality(Reach(heap, d))]]
    /\ last' = Op("call", d, "", FlowRef(d))
    /\ UNCHANGED <<heap, funcs, idict, accesses, matchVars, evalVars>>

\* Lines 53-55: new_flow = instance.__dict__.get("__flow", None); a hit
\* returns it.
GetLookup(t) ==
    /\ Active(t) /\ Top(t).pc = "lookup"
    /\ IF idict[threads[t].o] # 0
       THEN Return(t, heap, idict[threads[t].o])
       ELSE /\ threads' = SetTop(t, [Top(t) EXCEPT !.pc = "copy"])
            /\ last' = Op("step", Top(t).self, "", FlowRef(Top(t).self))
            /\ UNCHANGED <<heap, accesses>>
    /\ UNCHANGED <<funcs, idict, matchVars, evalVars>>

\* (mutant) line 58 left out: the copy keeps the branches of the definition.
CopyFlowKeepsBranches(h, n, o) == [h[n] EXCEPT !.origin = n, !.inst = o]

\* Lines 57-58: new_flow = copy.copy(self); new_flow.__branches = [].
CopyFlow(h, n, o) == [h[n] EXCEPT !.branches = <<>>, !.origin = n, !.inst = o]

GetCopy(t) ==
    /\ Active(t) /\ Top(t).pc = "copy"
    /\ heap' = Append(heap, CopyFlow(heap, Top(t).self, threads[t].o))
    /\ threads' = [SetTop(t, [Top(t) EXCEPT !.pc = "loop", !.new = Len(heap) + 1])
                      EXCEPT ![t].quota = @ - 1]
    /\ last' = Op("step", Top(t).self, "", FlowRef(Len(heap) + 1))
    /\ UNCHANGED <<funcs, idict, accesses, matchVars, evalVars>>

\* Line 60-63 for a branch that is a function: function.__get__(instance, owner)
\* is the method bound to the instance (a method object returns itself).
BindBranch(b, o) == IF b.bound = 0 THEN FnRef(b.id, o) ELSE b

\* Lines 59-63: one turn of the loop. Every branch has __get__ (a Flow, and a
\* function too): a Flow branch is a recursive call, which returns into line 61.
GetLoop(t) ==
    /\ Active(t) /\ Top(t).pc = "loop"
    /\ LET f  == Top(t)
           bs == heap[f.self].branches
       IN  IF f.i > Len(bs)
           THEN /\ threads' = SetTop(t, [f EXCEPT !.pc = "store"])
                /\ heap' = heap
           ELSE IF bs[f.i].t = "fn"
           THEN /\ heap' = [heap EXCEPT ![f.new].branches =
                                           Append(@, BindBranch(bs[f.i], threads[t].o))]
                /\ threads' = SetTop(t, [f EXCEPT !.i = @ + 1])
           ELSE /\ threads' = [threads EXCEPT ![t].stack = Append(@, Frame(bs[f.i].id))]
                /\ heap' = heap
    /\ last' = Op("step", Top(t).self, "", FlowRef(Top(t).self))
    /\ UNCHANGED <<funcs, idict, accesses, matchVars, evalVars>>

\* (mutant) line 65 left out: nothing is cached.
StoreNothing(c, o, n) == c

\* The key under which line 65 stores the clone: the string "__flow", one per
\* instance whatever the definition.
StoreIn(c, o, n) == [c EXCEPT ![o] = n]

\* Lines 65-66: instance.__dict__["__flow"] = new_flow; return new_flow.
GetStore(t) ==
    /\ Active(t) /\ Top(t).pc = "store"
    /\ idict' = StoreIn(idict, threads[t].o, Top(t).new)
    /\ Return(t, heap, Top(t).new)
    /\ UNCHANGED <<funcs, matchVars, evalVars>>

BindIdle == pattern = <<>> /\ item = <<>> /\ strict = FALSE /\ matched = "off" /\
            tree = <<>> /\ bound = FALSE /\ request = 0 /\ stack = <<>> /\ status = "off" /\
            result = 0 /\ log = <<>>

InitBind ==
    /\ heap = <<>>
    /\ funcs = <<>>
    /\ idict = [o \in Owners |-> 0]
    /\ threads = [t \in Threads |-> IdleThread]
    /\ accesses = <<>>
    /\ last = Op("init", 0, "", FlowRef(0))
    /\ BindIdle

Build ==
    \/ NewRoot
    \/ \E n \in FlowIds : \E m \in Guards : When(n, m)
    \/ \E n \in FlowIds : \E tr \in Transforms : TransformOp(n, tr)
    \/ \E n \in FlowIds : ThenRespond(n)
    \/ \E n \in FlowIds : ThenPassThrough(n)
    \/ \E n \in FlowIds : \E f \in FlowIds : ThenDelegate(n, f)
    \/ \E n \in FlowIds : \E p \in Params : SetParameters(n, p)

\* The builders and the parameter setter alone.
NextBuild == Build
SpecBuild == InitBind /\ [][NextBuild]_vars

GetStep(t) == GetLookup(t) \/ GetCopy(t) \/ GetLoop(t) \/ GetStore(t)

\* One thread: builder calls, parameter assignments and attribute accesses, each
\* run to its end before the next starts.
NextBind ==
    \/ NewRoot
    \/ \E n \in FlowIds : \E m \in Guards : When(n, m)
    \/ \E n \in FlowIds : \E tr \in Transforms : TransformOp(n, tr)
    \/ \E n \in FlowIds : ThenRespond(n)
    \/ \E n \in FlowIds : \E p \in Params : SetParameters(n, p)
    \/ \E d \in FlowIds : \E o \in Owners : GetCall(1, d, o)
    \/ GetStep(1)
SpecBind == InitBind /\ [][NextBind]_vars

\* Several threads: the flows are built first (configuration time), then the
\* threads read the attribute, their steps interleaved at will.
NextRace ==
    \/ Building /\ NewRoot
    \/ \E n \in FlowIds : \E m \in Guards : Building /\ When(n, m)
    \/ \E n \in FlowIds : Building /\ ThenRespond(n)
    \/ \E t \in Threads : \E d \in FlowIds : \E o \in Owners : GetCall(t, d, o)
    \/ \E t \in Threads : GetStep(t)
SpecRace == InitBind /\ [][NextRace]_vars

(***************************************************************************)
(* Properties of the clones and of the parameters.                         *)
(***************************************************************************)
LastAccess == accesses[Len(accesses)]
JustReturned == last.op = "get" /\ accesses # <<>>
ClonesOf(o, d) == {n \in FlowIds : heap[n].origin = d /\ heap[n].inst = o}

RECURSIVE IsCloneOf(_, _, _)
\* c has the structure of d: the same class and guard / transform, as many
\* branches, each _responder of d at its place in c (as the function or as the
\* method bound to the instance), each sub-flow of d at its place in c as a copy
\* of that sub-flow which is in turn a clone of it.
IsCloneOf(h, c, d) ==
    /\ c # d
    /\ h[c].origin = d
    /\ h[c].cls = h[d].cls /\ h[c].arg = h[d].arg
    /\ Len(h[c].branches) = Len(h[d].branches)
    /\ \A k \in 1..Len(h[d].branches) :
          LET bd == h[d].branches[k]
              bc == h[c].branches[k]
          IN  IF bd.t = "fn" THEN bc.t = "fn" /\ bc.id = bd.id
              ELSE bc.t = "flow" /\ IsCloneOf(h, bc.id, bd.id)

\* C4: the clone an owner gets on its first access (nothing cached for the
\* owner yet) has the tree structure of the definition: same number of
\* branches in the same order at every node, sub-flows cloned one for one,
\* leaf responders shared.
C4_CloneHasStructureOfDefinition ==
    (JustReturned /\ LastAccess.first) => IsCloneOf(heap, LastAccess.ret, LastAccess.d)

\* C5: the cache is kept per definition: what an access to definition d
\* returns is a clone of d, never the clone cached for another definition.
C5_CachePerDefinition ==
    JustReturned => heap[LastAccess.ret].origin = LastAccess.d

\* C6: under any interleaving of concurrent accesses one clone is created and
\* retained per owner and definition, and every completed access of the owner
\* returned that clone.
C6_OneClonePerOwnerUnderRace ==
    \A o \in Owners : \A d \in FlowIds :
        /\ Cardinality(ClonesOf(o, d)) <= 1
        /\ \A i \in 1..Len(accesses) : \A j \in 1..Len(accesses) :
              (accesses[i].o = o /\ accesses[i].d = d /\
               accesses[j].o = o /\ accesses[j].d = d) => accesses[i].ret = accesses[j].ret

\* A's clone is changed by the transition just taken: a parameter assignment
\* or a builder call whose receiver is a node of A's clone tree.
Mutators == {"parameters", "when", "transform", "then_respond"}
BothBound(a, b) == /\ a # b /\ idict[a] # 0 /\ idict[b] # 0
                   /\ heap[idict[a]].origin = heap[idict[b]].origin

\* C7: two owners bound to the same definition hold distinct clones with no
\* node in common, and a parameter assignment or builder call on a node of
\* A's clone leaves every node of B's clone as it was.
C7_OwnersShareNoFlowState ==
    [][\A a \in Owners : \A b \in Owners :
          BothBound(a, b) =>
             /\ Reach(heap, idict[a]) \cap Reach(heap, idict[b]) = {}
             /\ (last'.op \in Mutators /\ last'.self \in Reach(heap, idict[a]))
                   => \A n \in Reach(heap, idict[b]) : heap'[n] = heap[n]]_vars

C7_Witness ==
    /\ BothBound(1, 2)
    /\ last.op = "parameters" /\ last.self = idict[1]
    /\ Cardinality(Reach(heap, idict[1])) >= 2
    /\ Cardinality(Reach(heap, idict[2])) >= 2
    /\ \A n \in Reach(heap, idict[1]) : heap[n].parameters = 1
    /\ \A n \in Reach(heap, idict[2]) : heap[n].parameters = 0

\* C8: once an owner has accessed a definition, every later access of that
\* owner to that definition returns the same flow, and no second clone of the
\* definition exists for the owner, whatever was called in between.
C8_LaterAccessReturnsCachedClone ==
    \A i \in 1..Len(accesses) : \A j \in 1..Len(accesses) :
        (i < j /\ accesses[i].o = accesses[j].o /\ accesses[i].d = accesses[j].d)
            => /\ accesses[j].ret = accesses[i].ret
               /\ Cardinality(ClonesOf(accesses[i].o, accesses[i].d)) <= 1

C8_Witness ==
    /\ Len(accesses) >= 2
    /\ accesses[1].o = accesses[2].o /\ accesses[1].d = accesses[2].d
    /\ accesses[1].first /\ JustReturned
    /\ Len(heap[accesses[1].ret].branches) > Len(heap[accesses[1].d].branches)

\* C9: every flow holds the parameter set of the flow it is a branch of, so
\* every node reachable from a root holds the root's parameters: after an
\* assignment on the root, and after attaching a child or a pre-built sub-tree.
C9_ParametersReachEveryNode ==
    \A r \in FlowIds : \A n \in Reach(heap, r) : heap[n].parameters = heap[r].parameters

C9_Witness ==
    /\ last.op = "then_delegate"
    /\ heap[last.self].parameters # 0
    /\ Children(heap, last.ret.id) # {}
    /\ Len(heap[last.self].branches) >= 1

\* C16: every builder (when, transform, then_respond, then_pass_through,
\* then_delegate) returns the child it has just appended to the receiver, not
\* the receiver.
Builders == {"when", "transform", "then_respond", "then_pass_through", "then_delegate"}
C16_BuildersReturnTheNewChild ==
    last.op \in Builders =>
        /\ last.ret # FlowRef(last.self)
        /\ heap[last.self].branches[Len(heap[last.self].branches)] = last.ret

(***************************************************************************)
(* PART 3. The evaluation of one request by a flow tree.                   *)
(*                                                                         *)
(* The tree is a value: a node is [cls, arg, branches] with                *)
(*   cls "Flow", "GuardedFlow" (arg: the guard), "TransformingFlow" (arg:  *)
(*       the transform), and for the _responder closures                   *)
(*   cls "respond" (arg "value": then_respond(7), arg "fn":                *)
(*       then_respond(fn)) and "pass" (arg: the endpoint).                 *)
(* bound tells whether the tree is a clone made by Flow.__get__, whose     *)
(* closures are methods bound to the instance, or a tree as the builders   *)
(* left it, whose closures are plain functions.                            *)
(*                                                                         *)
(* The generators that are active form the stack; a frame is               *)
(*   k "flow"       Flow.__call__ of the node at path, at branch i, with   *)
(*                  the request req                                        *)
(*   k "transform"  Transform.transform of the node at path, waiting at    *)
(*                  line 26 (req: new_request, orig: request)              *)
(*   k "pass"       the _responder of then_pass_through at its yield       *)
(***************************************************************************)
MaxNodes == 3          \* nodes of the tree below the root

Requests  == {0, 1, 2}         \* 0: a request that is falsy in Python
Resumes   == {5, 6}            \* the values a driver resumes with
Endpoints == {"remote", "cache"}
Instance  == -1                \* the instance a clone's methods are bound to
RespondValue == 7              \* the plain value given to then_respond
EvalTransforms == {"identity", "rewrite", "late", "fault"}

Node(c, a, bs) == [cls |-> c, arg |-> a, branches |-> bs]
Falsy(r) == r = 0

\* matcher.matches(request) of the guards of the model: they accept request 1;
\* the matcher "gx" raises an exception (not DoesNotAccept) on request 2.
GuardMatches(g, r) == r = 1
GuardFaults(g, r)  == g = "gx" /\ r = 2

\* Transform.transform_request (transform.py 15-16 and its overrides):
\*   identity  the base class: the request unchanged
\*   rewrite   a rewritten request
\*   late      the request unchanged
\*   fault     raises (not DoesNotAccept) on request 2
TransformRequest(tr, r) ==
    IF tr = "rewrite" THEN [k |-> "ret", v |-> (r + 1) % 3]
    ELSE IF tr = "fault" /\ r = 2 THEN [k |-> "fault", v |-> 0]
    ELSE [k |-> "ret", v |-> r]

\* Transform.transform_response (transform.py 18-19 and its overrides):
\*   identity  the base class: the response unchanged
\*   rewrite   a rewritten response
\*   late      raises DoesNotAccept
\*   fault     raises another exception
TransformResponse(tr, newreq, resp, orig) ==
    IF tr = "rewrite" THEN [k |-> "ret", v |-> resp + 10]
    ELSE IF tr = "late" THEN [k |-> "reject", v |-> 0]
    ELSE IF tr = "fault" THEN [k |-> "fault", v |-> 0]
    ELSE [k |-> "ret", v |-> resp]

\* The callable given to then_respond: fn(request) = 100 + request. It takes
\* one argument; any other number of arguments is a TypeError.
CallFn(args) ==
    IF Len(args) = 1 THEN [k |-> "ret", v |-> 100 + args[1]]
    ELSE [k |-> "fault", v |-> 0]

\* transform.py 91-94: _responder(*args) calls responder(*args); the method
\* bound by __get__ is called with (instance, request).
ResponderArgs(b, r) == IF b THEN <<Instance, r>> ELSE <<r>>

\* transform.py 104-105: _responder(self, request=None), "if not request:
\* request = self". The plain function gets the request as self; the bound
\* method gets the instance as self and the request as request.
PassThroughRequest(b, r) == IF b THEN (IF Falsy(r) THEN Instance ELSE r) ELSE r

Event(e, p, v, g) == [e |-> e, path |-> p, v |-> v, tag |-> g]
FlowFrame(p, r)   == [k |-> "flow", path |-> p, req |-> r, i |-> 1, orig |-> r]
TransformFrame(p, nr, r) == [k |-> "transform", path |-> p, req |-> nr, i |-> 0, orig |-> r]
PassFrame(p, r)   == [k |-> "pass", path |-> p, req |-> r, i |-> 0, orig |-> r]
Sig(k, v) == [k |-> k, v |-> v]

RECURSIVE NodeAt(_, _)
NodeAt(n, p) == IF p = <<>> THEN n ELSE NodeAt(n.branches[Head(p)], Tail(p))

Pop(st) == SubSeq(st, 1, Len(st) - 1)
\* The flow frame on top of the transform frame of the same TransformingFlow
\* is next_in_chain (super().__call__): its outcome goes to line 26.
IsChain(st) == Len(st) >= 2 /\ st[Len(st)].k = "flow" /\ st[Len(st) - 1].k = "transform"
               /\ st[Len(st) - 1].path = st[Len(st)].path
Outcome(sig) == IF sig.k = "ret" THEN "return" ELSE sig.k
EndStatus(sig) == IF sig.k = "ret" THEN "done"
                  ELSE IF sig.k = "reject" THEN "rejected" ELSE "fault"

\* (mutant) line 84 as "except Exception": every exception is caught.
CaughtAnyException(sig) == sig.k # "ret"

\* Line 84, "except DoesNotAccept": the outcomes Flow.__call__ catches.
Caught(sig) == sig.k = "reject"

RECURSIVE Finish(_, _, _, _)
RECURSIVE Deliver(_, _, _, _)

\* The generator on top of the stack ends with sig (a return value, a
\* DoesNotAccept, another exception): the end of the node's evaluation is
\* recorded and the outcome goes to the generator below.
Finish(tr, st, sig, lg) ==
    LET f   == st[Len(st)]
        lg1 == IF IsChain(st) THEN lg
               ELSE Append(lg, Event(Outcome(sig), f.path, sig.v, ""))
    IN  Deliver(tr, Pop(st), sig, lg1)

\* The generator on top of the stack gets the outcome of what it delegated to.
\*   Flow.__call__ (79-87): a value is returned at once (83), DoesNotAccept is
\*     caught and the loop goes on with the next branch (84-85), any other
\*     exception leaves the generator.
\*   Transform.transform (26-30): a value goes through transform_response;
\*     an exception leaves the generator.
\*   No generator left: the driver gets the outcome.
Deliver(tr, st, sig, lg) ==
    IF st = <<>>
    THEN [stack |-> st, status |-> EndStatus(sig), result |-> sig.v, log |-> lg]
    ELSE LET f == st[Len(st)]
         IN  IF f.k = "flow"
             THEN IF Caught(sig)
                  THEN [stack |-> [st EXCEPT ![Len(st)].i = @ + 1], status |-> "run",
                        result |-> 0, log |-> lg]
                  ELSE Finish(tr, st, sig, lg)
             ELSE IF sig.k = "ret"
                  THEN Finish(tr, st,
                              TransformResponse(NodeAt(tr, f.path).arg, f.req, sig.v, f.orig),
                              Append(lg, Event("post", f.path, sig.v, NodeAt(tr, f.path).arg)))
                  ELSE Finish(tr, st, sig, lg)

\* The trees of the model: every tree a Flow() root and the builders can
\* make with at most MaxNodes nodes below the root.
Leaves == {Node("respond", "value", <<>>), Node("respond", "fn", <<>>)} \cup
          {Node("pass", e, <<>>) : e \in Endpoints}
InnerLabels == {<<"Flow", "">>, <<"GuardedFlow", "g1">>, <<"GuardedFlow", "gx">>} \cup
               {<<"TransformingFlow", tr>> : tr \in EvalTransforms}

RECURSIVE TreesOf(_)
RECURSIVE ForestsOf(_)
TreesOf(n) == (IF n = 1 THEN Leaves ELSE {}) \cup
              {Node(l[1], l[2], f) : l \in InnerLabels, f \in ForestsOf(n - 1)}
ForestsOf(n) == IF n = 0 THEN {<<>>}
                ELSE UNION {{<<x>> \o f : x \in TreesOf(k), f \in ForestsOf(n - k)} : k \in 1..n}
Roots == {Node("Flow", "", f) : f \in UNION {ForestsOf(n) : n \in 0..MaxNodes}}

EvalIdle == pattern = <<>> /\ item = <<>> /\ strict = FALSE /\ matched = "off" /\
            heap = <<>> /\ funcs = <<>> /\ idict = <<>> /\ threads = <<>> /\
            accesses = <<>> /\ last = <<>>

Init ==
    /\ tree \in Roots
    /\ bound \in BOOLEAN
    /\ request \in Requests
    /\ stack = <<>>
    /\ status = "new"
    /\ result = 0
    /\ log = <<>>
    /\ EvalIdle

TopFrame == stack[Len(stack)]
Branches(f) == NodeAt(tree, f.path).branches
\* The flow on top is at line 80-82 with a branch left to try.
AtBranch(c) ==
    /\ status = "run" /\ stack # <<>> /\ TopFrame.k = "flow"
    /\ TopFrame.i <= Len(Branches(TopFrame))
    /\ Branches(TopFrame)[TopFrame.i].cls = c
Branch == Branches(TopFrame)[TopFrame.i]
BranchPath == Append(TopFrame.path, TopFrame.i)
Started == Append(log, Event("start", BranchPath, TopFrame.req, ""))
\* Flow.__call__ of the branch starts, with the request r.
Entering(lg, r) == Append(lg, Event("enter", BranchPath, r, ""))
Becomes(o) ==
    /\ stack' = o.stack /\ status' = o.status /\ result' = o.result /\ log' = o.log
    /\ UNCHANGED <<tree, bound, request, matchVars, heapVars>>

\* The driver calls the root with the request: Flow.__call__ (79) starts.
Call ==
    /\ status = "new"
    /\ Becomes([stack |-> <<FlowFrame(<<>>, request)>>, status |-> "run", result |-> 0,
                log |-> <<Event("start", <<>>, request, ""),
                          Event("enter", <<>>, request, "")>>])

\* Line 82 on a plain Flow branch: its Flow.__call__ starts.
TryFlow ==
    /\ AtBranch("Flow")
    /\ Becomes([stack |-> Append(stack, FlowFrame(BranchPath, TopFrame.req)),
                status |-> "run", result |-> 0, log |-> Entering(Started, TopFrame.req)])

\* (mutant) GuardedFlow.__call__ without lines 127-128: the guard is not asked.
TryGuardedIgnoresGuard ==
    /\ AtBranch("GuardedFlow")
    /\ Becomes([stack |-> Append(stack, FlowFrame(BranchPath, TopFrame.req)),
                status |-> "run", result |-> 0, log |-> Entering(Started, TopFrame.req)])

\* Line 82 on a GuardedFlow branch: GuardedFlow.__call__ (126-130) raises
\* DoesNotAccept when the guard does not match, else is Flow.__call__; an
\* exception of the matcher leaves it.
TryGuarded ==
    /\ AtBranch("GuardedFlow")
    /\ IF GuardFaults(Branch.arg, TopFrame.req)
       THEN Becomes(Deliver(tree, stack, Sig("fault", 0),
                            Append(Started, Event("fault", BranchPath, 0, ""))))
       ELSE IF GuardMatches(Branch.arg, TopFrame.req)
       THEN Becomes([stack |-> Append(stack, FlowFrame(BranchPath, TopFrame.req)),
                     status |-> "run", result |-> 0, log |-> Entering(Started, TopFrame.req)])
       ELSE Becomes(Deliver(tree, stack, Sig("reject", 0),
                            Append(Started, Event("reject", BranchPath, 0, "guard"))))

\* (mutant) line 26 as next_in_chain(request): the request is forwarded as it
\* came, not as transform_request rewrote it.
TryTransformingForwardsOriginal ==
    /\ AtBranch("TransformingFlow")
    /\ LET pre == TransformRequest(Branch.arg, TopFrame.req)
           lg  == Append(Started, Event("pre", BranchPath, TopFrame.req, Branch.arg))
       IN  IF pre.k = "fault"
           THEN Becomes(Deliver(tree, stack, Sig("fault", 0),
                                Append(lg, Event("fault", BranchPath, 0, ""))))
           ELSE IF Falsy(pre.v)
           THEN Becomes(Deliver(tree, stack, Sig("reject", 0),
                                Append(lg, Event("reject", BranchPath, 0, "transform"))))
           ELSE Becomes([stack |-> stack \o <<TransformFrame(BranchPath, pre.v, TopFrame.req),
                                              FlowFrame(BranchPath, TopFrame.req)>>,
                         status |-> "run", result |-> 0, log |-> Entering(lg, TopFrame.req)])

\* Line 82 on a TransformingFlow branch: TransformingFlow.__call__ (138-140)
\* is Transform.transform (21-30) up to line 26, where next_in_chain, the
\* Flow.__call__ of the same node, starts with new_request.
TryTransforming ==
    /\ AtBranch("TransformingFlow")
    /\ LET pre == TransformRequest(Branch.arg, TopFrame.req)
           lg  == Append(Started, Event("pre", BranchPath, TopFrame.req, Branch.arg))
       IN  IF pre.k = "fault"
           THEN Becomes(Deliver(tree, stack, Sig("fault", 0),
                                Append(lg, Event("fault", BranchPath, 0, ""))))
           ELSE IF Falsy(pre.v)
           THEN Becomes(Deliver(tree, stack, Sig("reject", 0),
                                Append(lg, Event("reject", BranchPath, 0, "transform"))))
           ELSE Becomes([stack |-> stack \o <<TransformFrame(BranchPath, pre.v, TopFrame.req),
                                              FlowFrame(BranchPath, pre.v)>>,
                         status |-> "run", result |-> 0, log |-> Entering(lg, pre.v)])

\* Line 82 on a then_respond closure (91-98): the value, or responder(*args).
TryRespond ==
    /\ AtBranch("respond")
    /\ LET args == ResponderArgs(bound, TopFrame.req)
           out  == IF Branch.arg = "value" THEN Sig("ret", RespondValue) ELSE CallFn(args)
           lg   == IF Branch.arg = "value" THEN Started
                   ELSE Append(Started, Event("call", BranchPath, Len(args), "fn"))
       IN  Becomes(Deliver(tree, stack, out,
                           Append(lg, Event(Outcome(out), BranchPath, out.v, ""))))

\* Line 82 on a then_pass_through closure (104-106): it yields
\* (endpoint, request) to the driver and waits.
TryPassThrough ==
    /\ AtBranch("pass")
    /\ LET r == PassThroughRequest(bound, TopFrame.req)
       IN  Becomes([stack |-> Append(stack, PassFrame(BranchPath, r)),
                    status |-> "susp", result |-> 0,
                    log |-> Append(Started, Event("suspend", BranchPath, r, Branch.arg))])

\* Line 87: no branch left, the flow raises DoesNotAccept.
Exhausted ==
    /\ status = "run" /\ stack # <<>> /\ TopFrame.k = "flow"
    /\ TopFrame.i > Len(Branches(TopFrame))
    /\ Becomes(Finish(tree, stack, Sig("reject", 0), log))

\* The driver resumes the suspended computation with v (send): line 106-107,
\* the closure returns v.
Resume(v) ==
    /\ status = "susp" /\ TopFrame.k = "pass"
    /\ Becomes(Finish(tree, stack, Sig("ret", v),
                      Append(log, Event("resume", TopFrame.path, v, ""))))

Next ==
    \/ Call
    \/ TryFlow
    \/ TryGuarded
    \/ TryTransforming
    \/ TryRespond
    \/ TryPassThrough
    \/ Exhausted
    \/ \E v \in Resumes : Resume(v)
Spec == Init /\ [][Next]_vars

(***************************************************************************)
(* Properties of the evaluation, read off the log.                         *)
(***************************************************************************)
Idx == 1..Len(log)
Parent(p) == SubSeq(p, 1, Len(p) - 1)
Pos(p)    == p[Len(p)]
IsPrefix(p, q) == Len(p) <= Len(q) /\ SubSeq(q, 1, Len(p)) = p
Happened(e, p) == \E x \in Idx : log[x].e = e /\ log[x].path = p
Before(e, p, x) == \E y \in 1..(x - 1) : log[y].e = e /\ log[y].path = p
\* Flow.__call__ of the node at p is still active.
OnStack(p) == \E j \in 1..Len(stack) : stack[j].k = "flow" /\ stack[j].path = p
AllBranchesRejected(p) ==
    \A k \in 1..Len(NodeAt(tree, p).branches) : Happened("reject", Append(p, k))
SuspendedBelow(p, x) ==
    \E y \in 1..(x - 1) : log[y].e = "suspend" /\ IsPrefix(p, log[y].path)

\* Branch k of a node is started only after the branches 1..k-1 each rejected.
C1_InOrder ==
    \A x \in Idx : (log[x].e = "start" /\ log[x].path # <<>>) =>
        \A j \in 1..(Pos(log[x].path) - 1) :
            Before("reject", Append(Parent(log[x].path), j), x)

\* What the first branch that does not reject returns is what Flow.__call__
\* of the node returns: to the driver, to the parent flow, or (for a
\* TransformingFlow) to the transform_response of its transform.
C1_FirstResult ==
    \A x \in Idx : (log[x].e = "return" /\ log[x].path # <<>>) =>
        /\ x + 1 <= Len(log)
        /\ log[x + 1].path = Parent(log[x].path)
        /\ log[x + 1].v = log[x].v
        /\ log[x + 1].e = IF NodeAt(tree, Parent(log[x].path)).cls = "TransformingFlow"
                          THEN "post" ELSE "return"

\* No branch after the one that returned is started.
C1_NoneAfter ==
    \A x \in Idx : \A y \in Idx :
        (log[x].e = "return" /\ log[y].e = "start" /\ log[x].path # <<>> /\
         log[y].path # <<>> /\ Parent(log[x].path) = Parent(log[y].path))
            => Pos(log[y].path) <= Pos(log[x].path)

\* A node all of whose branches rejected rejects, the root with the outcome
\* "rejected" (the unhandled request).
C1_AllRejectRejects ==
    \A x \in Idx : log[x].e = "enter" =>
        LET p == log[x].path
        IN  (AllBranchesRejected(p) /\ ~OnStack(p))
                => (Happened("reject", p) /\ (p = <<>> => status = "rejected"))

\* ... and no suspension was emitted by the time it does.
C1_RejectsBeforeSuspending ==
    \A x \in Idx : (log[x].e = "reject" /\ log[x].tag = "" /\
                    Happened("enter", log[x].path) /\ AllBranchesRejected(log[x].path))
                        => ~SuspendedBelow(log[x].path, x)

\* C1: a flow tries its branches strictly in registration order; the first
\* branch that does not reject supplies the result and no later branch is
\* started; if all branches reject, the flow rejects (the root: the request is
\* unhandled) and no suspension has been emitted.
C1_FirstMatchWins ==
    /\ C1_InOrder
    /\ C1_FirstResult
    /\ C1_NoneAfter
    /\ C1_AllRejectRejects
    /\ C1_RejectsBeforeSuspending

\* A branch rejected after a suspension it had issued.
LateReject(x) == log[x].e = "reject" /\ SuspendedBelow(log[x].path, x)

\* C2: after a branch rejected late (it had already suspended and been
\* resumed) nothing more is started, no second suspension is emitted and the
\* driver gets no response: the late rejection is not taken for a plain one.
C2_LateRejectionNotAbsorbed ==
    \A x \in Idx : LateReject(x) =>
        /\ status \notin {"done", "susp"}
        /\ \A y \in Idx : y > x => log[y].e \notin {"start", "suspend"}

\* C3: a then_pass_through(endpoint) branch emits, when it is started with a
\* request, one suspension (endpoint, that request), never rejects, and
\* returns the value the driver resumes it with.
C3_PassThroughSuspendsOnce ==
    \A x \in Idx : (log[x].e = "start" /\ NodeAt(tree, log[x].path).cls = "pass") =>
        LET p == log[x].path
        IN  /\ x + 1 <= Len(log)
            /\ log[x + 1] = Event("suspend", p, log[x].v, NodeAt(tree, p).arg)
            /\ Cardinality({y \in Idx : log[y].e = "suspend" /\ log[y].path = p}) = 1
            /\ Cardinality({y \in Idx : log[y].e = "resume" /\ log[y].path = p}) <= 1
            /\ ~Happened("reject", p) /\ ~Happened("fault", p)
            /\ \A y \in Idx : (log[y].e = "resume" /\ log[y].path = p) =>
                  /\ y + 1 <= Len(log)
                  /\ log[y + 1] = Event("return", p, log[y].v, "")

\* A GuardedFlow branch is started (line 82 of its parent) at position x.
GuardStarts(x) == /\ log[x].e = "start" /\ log[x].path # <<>>
                  /\ NodeAt(tree, log[x].path).cls = "GuardedFlow"
\* Something happened strictly below the node at p.
TouchedBelow(p) == \E y \in Idx : IsPrefix(p, log[y].path) /\ log[y].path # p
NextSibling(p) == Append(Parent(p), Pos(p) + 1)
HasNextSibling(p) == Pos(p) < Len(NodeAt(tree, Parent(p)).branches)

\* C14: a guarded branch whose guard does not match the request rejects at
\* once: none of its branches is started, its own Flow.__call__ is not
\* entered, nothing is suspended, and the parent goes on to the next sibling
\* with the same request; when the guard matches, Flow.__call__ of the branch
\* starts with the request.
C14_FailedGuardRejectsAtOnce ==
    \A x \in Idx : GuardStarts(x) =>
        LET p == log[x].path
            r == log[x].v
        IN  /\ x + 1 <= Len(log)
            /\ IF GuardFaults(NodeAt(tree, p).arg, r)
               THEN log[x + 1] = Event("fault", p, 0, "")
               ELSE IF GuardMatches(NodeAt(tree, p).arg, r)
               THEN log[x + 1] = Event("enter", p, r, "")
               ELSE /\ log[x + 1] = Event("reject", p, 0, "guard")
                    /\ ~TouchedBelow(p)
                    /\ ~Happened("enter", p)
                    /\ HasNextSibling(p) =>
                          IF x + 2 <= Len(log)
                          THEN log[x + 2] = Event("start", NextSibling(p), r, "")
                          ELSE /\ status = "run" /\ TopFrame.path = Parent(p)
                               /\ TopFrame.i = Pos(p) + 1 /\ TopFrame.req = r

C14_Witness ==
    \E x \in Idx :
        /\ GuardStarts(x)
        /\ ~GuardMatches(NodeAt(tree, log[x].path).arg, log[x].v)
        /\ ~GuardFaults(NodeAt(tree, log[x].path).arg, log[x].v)
        /\ NodeAt(tree, log[x].path).branches # <<>>
        /\ x + 2 <= Len(log)
        /\ log[x + 2].e = "start" /\ log[x + 2].path = NextSibling(log[x].path)
        /\ status = "done"

\* A then_respond closure is started (line 82 of its flow) at position x.
RespondStarts(x) == /\ log[x].e = "start" /\ log[x].path # <<>>
                    /\ NodeAt(tree, log[x].path).cls = "respond"
Calls(p) == {y \in Idx : log[y].e = "call" /\ log[y].path = p}

\* C15: a then_respond branch never rejects and never suspends; registered
\* with a plain value it returns that value whatever the request; registered
\* with a callable fn it calls fn once, with the request, and returns
\* fn(request); fn is not called unless every earlier sibling rejected.
C15_RespondReturnsItsResponse ==
    \A x \in Idx : RespondStarts(x) =>
        LET p == log[x].path
            r == log[x].v
        IN  /\ ~Happened("reject", p) /\ ~Happened("suspend", p)
            /\ \A j \in 1..(Pos(p) - 1) : Before("reject", Append(Parent(p), j), x)
            /\ IF NodeAt(tree, p).arg = "value"
               THEN /\ x + 1 <= Len(log)
                    /\ log[x + 1] = Event("return", p, RespondValue, "")
                    /\ Calls(p) = {}
               ELSE /\ x + 2 <= Len(log)
                    /\ log[x + 1] = Event("call", p, 1, "fn")
                    /\ log[x + 2] = Event("return", p, CallFn(<<r>>).v, "")
                    /\ Calls(p) = {x + 1}

\* C17: an exception other than DoesNotAccept raised in a guard, a transform
\* or a responder is caught at no flow level: it leaves every enclosing flow,
\* the evaluation ends with the fault as its outcome, no branch is started
\* and nothing is suspended after it.
C17_FaultsAreNotIntercepted ==
    \A x \in Idx : log[x].e = "fault" =>
        /\ status = "fault" /\ stack = <<>>
        /\ log[Len(log)] = Event("fault", <<>>, 0, "")
        /\ \A y \in Idx : y > x => /\ log[y].e = "fault"
                                   /\ IsPrefix(log[y].path, log[x].path)

C17_Witness ==
    \E x \in Idx :
        /\ log[x].e = "fault" /\ log[x].path # <<>>
        /\ HasNextSibling(log[x].path)
        /\ SuspendedBelow(log[x].path, x)
        /\ status = "fault"

\* The tree is transform(T1).transform(T2).then_pass_through(e) on the root.
NestedTransforms ==
    /\ Len(tree.branches) = 1 /\ tree.branches[1].cls = "TransformingFlow"
    /\ Len(tree.branches[1].branches) = 1
    /\ tree.branches[1].branches[1].cls = "TransformingFlow"
    /\ Len(tree.branches[1].branches[1].branches) = 1
    /\ tree.branches[1].branches[1].branches[1].cls = "pass"
T1 == tree.branches[1].arg
T2 == tree.branches[1].branches[1].arg
R1 == TransformRequest(T1, request).v
R2 == TransformRequest(T2, R1).v
Inner(v) == TransformResponse(T2, R2, v, R1).v
Outer(v) == TransformResponse(T1, R1, Inner(v), request).v
IsStage(ev) == ev.e \in {"pre", "suspend", "resume", "post"}
Stages == SelectSeq(log, IsStage)
StagesOf(v) ==
    << Event("pre", <<1>>, request, T1),
       Event("pre", <<1, 1>>, R1, T2),
       Event("suspend", <<1, 1, 1>>, R2, tree.branches[1].branches[1].branches[1].arg),
       Event("resume", <<1, 1, 1>>, v, ""),
       Event("post", <<1, 1>>, v, T2),
       Event("post", <<1>>, Inner(v), T1) >>
Entered(p) == {x \in Idx : log[x].e = "enter" /\ log[x].path = p}

\* C18: with T1 around T2 around a pass-through leaf the events of one
\* evaluation come in the order: T1 pre-process, T2 pre-process, suspension
\* with the request as rewritten by T1 then T2, resume, T2 post-process of the
\* resumed value, T1 post-process of what T2 returned; each transform starts
\* its continuation at most once, and the driver gets what T1 returned.
C18_NestedTransformsWrapInOrder ==
    NestedTransforms =>
        /\ \E v \in Resumes : IsPrefix(Stages, StagesOf(v))
        /\ Cardinality(Entered(<<1>>)) <= 1 /\ Cardinality(Entered(<<1, 1>>)) <= 1
        /\ status = "done" => \E v \in Resumes : Stages = StagesOf(v) /\ result = Outer(v)

C18_Witness ==
    /\ NestedTransforms /\ T1 = "rewrite" /\ T2 = "rewrite"
    /\ status = "done" /\ result = 25
    /\ Len(Stages) = 6 /\ Stages[3].v = 2

(***************************************************************************)
(* The evaluation as a function of the tree, the request and the values    *)
(* the driver resumes with: what a flow returns or raises and what it      *)
(* suspends with on the way. An outcome is [k, v, sus, rest]: k "ret",     *)
(* "reject", "fault", or "susp" (suspended, no resume value left), the     *)
(* suspensions emitted and the resume values not used.                     *)
(***************************************************************************)
Res(k, v, sus, rest) == [k |-> k, v |-> v, sus |-> sus, rest |-> rest]
Suspension(e, r) == [endpoint |-> e, req |-> r]

RECURSIVE EvalNode(_, _, _, _)
RECURSIVE EvalBranches(_, _, _, _, _, _)

\* Flow.__call__ (79-87) from branch i on.
EvalBranches(bs, i, b, r, vs, sus) ==
    IF i > Len(bs) THEN Res("reject", 0, sus, vs)
    ELSE LET o == EvalNode(bs[i], b, r, vs)
         IN  IF Caught(o) THEN EvalBranches(bs, i + 1, b, r, o.rest, sus \o o.sus)
             ELSE [o EXCEPT !.sus = sus \o o.sus]

\* branch(request) for each kind of branch.
EvalNode(n, b, r, vs) ==
    IF n.cls = "respond"
    THEN IF n.arg = "value" THEN Res("ret", RespondValue, <<>>, vs)
         ELSE LET c == CallFn(ResponderArgs(b, r)) IN Res(c.k, c.v, <<>>, vs)
    ELSE IF n.cls = "pass"
    THEN LET s == <<Suspension(n.arg, PassThroughRequest(b, r))>>
         IN  IF vs = <<>> THEN Res("susp", 0, s, vs) ELSE Res("ret", Head(vs), s, Tail(vs))
    ELSE IF n.cls = "GuardedFlow"
    THEN IF GuardFaults(n.arg, r) THEN Res("fault", 0, <<>>, vs)
         ELSE IF GuardMatches(n.arg, r) THEN EvalBranches(n.branches, 1, b, r, vs, <<>>)
         ELSE Res("reject", 0, <<>>, vs)
    ELSE IF n.cls = "TransformingFlow"
    THEN LET pre == TransformRequest(n.arg, r)
         IN  IF pre.k = "fault" THEN Res("fault", 0, <<>>, vs)
             ELSE IF Falsy(pre.v) THEN Res("reject", 0, <<>>, vs)
             ELSE LET o == EvalBranches(n.branches, 1, b, pre.v, vs, <<>>)
                      t == TransformResponse(n.arg, pre.v, o.v, r)
                  IN  IF o.k = "ret" THEN [o EXCEPT !.k = t.k, !.v = t.v] ELSE o
    ELSE EvalBranches(n.branches, 1, b, r, vs, <<>>)

\* What the driver has seen of the evaluation so far.
IsSuspend(ev) == ev.e = "suspend"
IsResume(ev)  == ev.e = "resume"
Suspensions == LET evs == SelectSeq(log, IsSuspend)
               IN  [j \in 1..Len(evs) |-> Suspension(evs[j].tag, evs[j].v)]
Resumed == LET evs == SelectSeq(log, IsResume) IN [j \in 1..Len(evs) |-> evs[j].v]
Settled == status \in {"susp", "done", "rejected", "fault"}
Seen == [k |-> IF status = "done" THEN "ret"
               ELSE IF status = "rejected" THEN "reject" ELSE status,
         v |-> result, sus |-> Suspensions]
Shown(o) == [k |-> o.k, v |-> o.v, sus |-> o.sus]

\* The two descriptions of the evaluation agree.
EvalAgrees == Settled => Seen = Shown(EvalNode(tree, bound, request, Resumed))

RECURSIVE WithoutIdentity(_)
\* The tree with a plain Flow in place of every TransformingFlow that wraps
\* the base class Transform.
WithoutIdentity(n) ==
    LET bs == [j \in 1..Len(n.branches) |-> WithoutIdentity(n.branches[j])]
    IN  IF n.cls = "TransformingFlow" /\ n.arg = "identity" THEN Node("Flow", "", bs)
        ELSE Node(n.cls, n.arg, bs)

\* C19: a transforming branch that wraps the identity Transform is equivalent
\* to a plain flow with the same children: for every request the driver sees
\* the same suspensions and the same outcome (response, rejection, fault).
C19_IdentityTransformIsPlainFlow ==
    Settled => Seen = Shown(EvalNode(WithoutIdentity(tree), bound, request, Resumed))

====
